---- MODULE Spec2Model ----
(***************************************************************************)
(* Training orchestration and champion/challenger promotion of the churn   *)
(* prediction project: the stages ingest -> validate -> transform -> train *)
(* -> evaluate -> push, the model registry, the production storage         *)
(* location and the serving component that loads from it.                  *)
(*                                                                         *)
(* Conventions.  AUC scores are points of the integer grid 0..MaxScore.    *)
(* A model is identified by the run that trained it (0 = a model that was  *)
(* registered before the first run).  Record fields passed between stages  *)
(* are read under the name the consuming function uses                     *)
(* (model_trainer_artifact.registry_version in the pusher is the version   *)
(* the trainer registered).  The registry, the object store and the data   *)
(* source are external: each call to them either succeeds or raises.       *)
(***************************************************************************)
EXTENDS Integers, Sequences, FiniteSets, TLC

\* ---- bounds ----
MaxRuns == 2
MaxScore == 2
MaxMargin == 1
MaxExpected == 1
\* prediction requests the application receives
MaxRequests == 2
\* UTC dates the application lives through
MaxDays == 2
\* calls made on one ModelPredictor
MaxCalls == 2
\* columns of the reference data, grid of p-values and thresholds, runs of
\* the monitoring flow
MaxCols == 2
MaxP == 2
MaxMonitorRuns == 2
\* rows of the raw snapshot, seeds, calls of split_data on one object
MaxRows == 4
MaxSeed == 1
MaxSplits == 2
\* column names
MaxNames == 3

Runs == 1..MaxRuns
Scores == 0..MaxScore
Margins == 0..MaxMargin

\* @task(retries=2, ...) on data_ingestion_task
retries == 2

None == 0
Unknown == -1

\* objects of the bundle under the production storage prefix
MetadataKey == "metadata.json"
ModelKeys == {"model/MLmodel", "model/model.pkl"}
BundleKeys == {MetadataKey} \cup ModelKeys

VARIABLES
    run,              \* per training run: position, artifacts, what was invoked
    expected_score,   \* ModelTrainerConfig.expected_score
    change_threshold, \* ModelEvaluationConfig.change_threshold (the margin;
                      \* initiate_model_evaluation does not read it)
    devReg,           \* registry <model_registry_name>: sequence of versions
    stagingReg,       \* registry <model_registry_name with dev->staging>
    prodReg,          \* registry <prod_registry_name>: sequence of versions
    s3,               \* production storage prefix: key -> promotion it holds
    svc,              \* the serving process (PredictionService)
    api,              \* the FastAPI application: requests, responses, logs
    mp,               \* a ModelPredictor object
    mon,              \* the data monitoring flow
    ingestion,        \* a DataIngestion object and the files it writes
    validation        \* a DataValidation object and its last column check

vars == <<run, expected_score, change_threshold, devReg,
          stagingReg, prodReg, s3, svc, api, mp, mon, ingestion, validation>>

config == <<expected_score, change_threshold>>
registry == <<devReg, stagingReg, prodReg>>
training == <<run, config, registry, s3>>
components == <<ingestion, validation>>
clients == <<api, mp, mon, components>>

\* ---- the state of one run before it starts ----
NewRun ==
    [pc |-> "idle", orch |-> "none", attempts |-> 0, invoked |-> <<>>,
     validation_status |-> "none", test_roc_auc |-> Unknown,
     metric_score |-> Unknown, model_registry_version |-> None,
     evalState |-> "none", prod_model_auc |-> Unknown,
     championAtEval |-> None, liveAtEval |-> None, loaded |-> <<>>,
     is_model_accepted |-> "none",
     prod_version |-> None, aliasAssigned |-> None, aliasBefore |-> None,
     uploadLeft |-> {}, returned |-> {}, retrying |-> "none",
     promoted |-> "none", err |-> "none", cause |-> "none"]

NewService ==
    [pc |-> "off", toDownload |-> <<>>, local |-> [k \in BundleKeys |-> None],
     model |-> [k \in ModelKeys |-> None], model_version |-> None,
     constructed |-> FALSE, ready |-> 0]

\* the application before its first request
NewApi == [reqs |-> <<>>, logs |-> {}, today |-> 1, uuids |-> 0, health |-> <<>>]

\* ModelPredictor.__init__: self._model = None, self._model_version = None
NewPredictor == [_model |-> None, _model_version |-> None, calls |-> <<>>]

\* a DataIngestion object whose files are not written yet
NewIngestion ==
    [rows |-> 0, test_size |-> 1, random_state |-> 0, splits |-> 0,
     training |-> {}, testing |-> {}, snapshot |-> 0, previous |-> <<>>,
     err |-> "none"]

\* a DataValidation object that has checked nothing yet
NewValidation == [all_schema |-> {}, columns |-> {}, result |-> "none"]

\* the monitoring flow before its first run
NewMonitor ==
    [pc |-> "idle", no |-> 0, threshold |-> 0, columns |-> 0, rows |-> 0,
     p_value |-> <<>>, drift_report |-> <<>>, warned |-> FALSE,
     reported |-> FALSE, triggered |-> 0]

\* ---- registry operations (MlflowClient) ----
\* mlflow.register_model / copy_model_version: the next version number
RegisterVersion(reg, rec) == Append(reg, rec)

SetValidationTagNowhere(reg, v, value) == reg

\* set_model_version_tag(name, version, "validation_status", value)
SetValidationTag(reg, v, value) ==
    [reg EXCEPT ![v].validation_status = value]

\* set_registered_model_alias(name, alias, version): the alias moves
SetRegisteredModelAlias(reg, alias, v) ==
    [w \in DOMAIN reg |->
        [reg[w] EXCEPT !.aliases =
            IF w = v THEN @ \cup {alias} ELSE @ \ {alias}]]

\* versions of a registry that carry an alias
Carrying(reg, alias) == {w \in DOMAIN reg : alias \in reg[w].aliases}

Champion == Carrying(prodReg, "champion")

ChampionVersion == IF Champion = {} THEN None ELSE CHOOSE w \in Champion : TRUE

\* a stage raised: the run ends with this exception
Raise(rec, kind, why) ==
    [rec EXCEPT !.pc = "failed", !.err = kind, !.cause = why]

Fail(r, kind) == [run EXCEPT ![r] = Raise(@, kind, "external")]

Init ==
    /\ run = [r \in Runs |-> NewRun]
    /\ expected_score \in 0..MaxExpected
    /\ change_threshold \in Margins
    /\ devReg \in {<<>>, <<[model |-> 0, status |-> "trained",
                            validation_status |-> "approved",
                            aliases |-> {"live"}]>>}
    /\ stagingReg = <<>>
    /\ prodReg = <<>>
    /\ s3 = [k \in BundleKeys |-> None]
    /\ svc = NewService
    /\ api = NewApi
    /\ mp = NewPredictor
    /\ mon = NewMonitor
    /\ ingestion = NewIngestion
    /\ validation = NewValidation

Active(r) == run[r].pc \notin {"idle", "exited"}

\* a run is started by training_flow (Prefect) or by TrainingPipeline
StartRun(r, o) ==
    /\ run[r].pc = "idle"
    /\ r > 1 => run[r - 1].pc # "idle"
    /\ run' = [run EXCEPT ![r].pc = "ingest", ![r].orch = o]
    /\ UNCHANGED <<config, registry, s3, svc, clients>>

NextStageSkipsValidation(stage) ==
    CASE stage = "ingest" -> "transform"
      [] stage = "validate" -> "transform"
      [] stage = "transform" -> "train"
      [] stage = "train" -> "evaluate"
      [] stage = "evaluate" -> "push"

\* the chain of task calls in training_flow and in run_pipeline
NextStage(stage) ==
    CASE stage = "ingest" -> "validate"
      [] stage = "validate" -> "transform"
      [] stage = "transform" -> "train"
      [] stage = "train" -> "evaluate"
      [] stage = "evaluate" -> "push"

Invoke(r, name) == [run EXCEPT ![r].invoked = Append(@, name)]

\* ---- ingestion ----
IngestionOutcomes == {"ok", "connect", "query", "split"}

RetryAllowedOnceMore(o, attempt) == o = "flow" /\ attempt <= retries + 1

\* Prefect runs the task again after any exception while retries remain
\* (run.retrying is the failure the pending retry follows)
RetryAllowed(o, attempt) == o = "flow" /\ attempt <= retries

data_ingestion_task(r) ==
    /\ run[r].pc = "ingest"
    /\ \E out \in IngestionOutcomes :
         LET n == run[r].attempts + 1
             base == [Invoke(r, "data_ingestion") EXCEPT ![r].attempts = n]
         IN run' = IF out = "ok"
                      THEN [base EXCEPT ![r].pc = NextStage("ingest"),
                                        ![r].retrying = "none",
                                        ![r].returned = @ \cup {"data_ingestion"}]
                   ELSE IF RetryAllowed(run[r].orch, n)
                      THEN [base EXCEPT ![r].retrying = out]
                   ELSE [base EXCEPT ![r] = Raise(@, "CustomException", out)]
    /\ UNCHANGED <<config, registry, s3, svc, clients>>

\* ---- validation ----
\* DataValidation.initiate_data_validation: both column checks, then drift
data_validation_task(r) ==
    /\ run[r].pc = "validate"
    /\ \E refOk \in BOOLEAN, curOk \in BOOLEAN, drift \in {"yes", "no", "raise"} :
         LET base == Invoke(r, "data_validation")
         IN run' = IF ~refOk \/ ~curOk
                      THEN [base EXCEPT ![r] =
                              Raise(@, "CustomException", "missing_columns")]
                   ELSE IF drift = "raise"
                      THEN [base EXCEPT ![r] =
                              Raise(@, "CustomException", "external")]
                   ELSE [base EXCEPT ![r].pc = NextStage("validate"),
                            ![r].returned = @ \cup {"data_validation"},
                            ![r].validation_status =
                                IF drift = "no" THEN "true" ELSE "false"]
    /\ UNCHANGED <<config, registry, s3, svc, clients>>

\* ---- transformation ----
TransformationGuardOff(status) == TRUE

\* if not validation_artifact.validation_status: raise Exception(...)
TransformationGuard(status) == status = "true"

\* training_flow raises the guard's Exception as it is; TrainingPipeline
\* catches it in start_data_transformation and wraps it
GuardError(o) == IF o = "flow" THEN "Exception" ELSE "CustomException"

data_transformation_task(r) ==
    /\ run[r].pc = "transform"
    /\ \E ok \in BOOLEAN :
         LET base == Invoke(r, "data_transformation")
             comp == [base EXCEPT ![r].invoked =
                         Append(@, "initiate_data_transformation")]
         IN run' = IF ~TransformationGuard(run[r].validation_status)
                      THEN [base EXCEPT ![r] =
                              Raise(@, GuardError(run[r].orch), "guard")]
                   ELSE IF ok
                      THEN [comp EXCEPT ![r].pc = NextStage("transform"),
                               ![r].returned = @ \cup {"data_transformation"}]
                   ELSE [comp EXCEPT ![r] =
                           Raise(@, "CustomException", "external")]
    /\ UNCHANGED <<config, registry, s3, svc, clients>>

\* ---- training ----
BelowOrEqualExpected(auc, expected) == auc <= expected

\* if test_roc_auc < self.config.expected_score: raise
BelowExpected(auc, expected) == auc < expected

model_trainer_task(r) ==
    /\ run[r].pc = "train"
    /\ \E out \in {"ok", "fail_fit", "fail_tag", "fail_dump"}, auc \in Scores :
         LET base == Invoke(r, "model_trainer")
             scored == [base EXCEPT ![r].test_roc_auc = auc]
             untagged == RegisterVersion(devReg,
                            [model |-> r, status |-> "none",
                             validation_status |-> "none", aliases |-> {}])
             reg == RegisterVersion(devReg,
                        [model |-> r, status |-> "trained",
                         validation_status |-> "pending", aliases |-> {}])
         IN IF out = "fail_fit"
               THEN /\ run' = [base EXCEPT ![r] =
                                 Raise(@, "CustomException", "external")]
                    /\ UNCHANGED devReg
            ELSE IF BelowExpected(auc, expected_score)
               THEN /\ run' = [scored EXCEPT ![r] =
                                 Raise(@, "CustomException", "below_expected_score")]
                    /\ UNCHANGED devReg
            ELSE IF out = "ok"
               THEN /\ devReg' = reg
                    /\ run' = [scored EXCEPT
                                 ![r].pc = NextStage("train"),
                                 ![r].returned = @ \cup {"model_trainer"},
                                 ![r].metric_score = auc,
                                 ![r].model_registry_version = Len(reg)]
            ELSE /\ devReg' = IF out = "fail_tag" THEN untagged ELSE reg
                 /\ run' = [scored EXCEPT ![r] =
                              Raise(@, "CustomException", "external")]
    /\ UNCHANGED <<config, stagingReg, prodReg, s3, svc, clients>>

\* ---- evaluation ----
\* _get_latest_production_model: models:/<model_registry_name>@live, and
\* None after any exception of the load
LatestProductionModel(reg, loadOk) ==
    LET live == Carrying(reg, "live")
    IN IF live # {} /\ loadOk THEN CHOOSE w \in live : TRUE ELSE None

\* if new_model_auc > prod_model_auc
Outperforms(new_model_auc, prod_model_auc) == new_model_auc > prod_model_auc

model_evaluation_task(r) ==
    /\ run[r].pc = "evaluate"
    /\ \E out \in {"ok", "fail_load", "fail_report"}, loadOk \in BOOLEAN,
          auc \in Scores :
         LET base == Invoke(r, "model_evaluation")
             v == run[r].model_registry_version
             new_model_auc == run[r].metric_score
             production_model == LatestProductionModel(devReg, loadOk)
             prod_model_auc == IF production_model # None THEN auc ELSE 0
             accept == Outperforms(new_model_auc, prod_model_auc)
             seen == [base EXCEPT
                        ![r].evalState = IF production_model # None
                                            THEN "ChampionExists"
                                            ELSE "NoChampionExists",
                        ![r].loaded = IF production_model # None
                                         THEN <<"dev", production_model>>
                                         ELSE <<>>,
                        ![r].championAtEval = ChampionVersion,
                        ![r].liveAtEval =
                            IF Carrying(devReg, "live") = {} THEN None
                            ELSE CHOOSE w \in Carrying(devReg, "live") : TRUE,
                        ![r].prod_model_auc = prod_model_auc]
         IN IF out = "fail_load"
               THEN /\ run' = [base EXCEPT ![r] =
                                 Raise(@, "CustomException", "external")]
                    /\ UNCHANGED <<devReg, stagingReg>>
            ELSE /\ devReg' =
                       IF accept
                          THEN SetRegisteredModelAlias(
                                   SetValidationTag(devReg, v, "approved"),
                                   "candidate", v)
                          ELSE SetValidationTag(devReg, v, "rejected")
                 /\ stagingReg' =
                       IF accept
                          THEN RegisterVersion(stagingReg,
                                   [model |-> devReg[v].model, source |-> v])
                          ELSE stagingReg
                 /\ run' = IF out = "ok"
                              THEN [seen EXCEPT ![r].pc = NextStage("evaluate"),
                                       ![r].returned = @ \cup {"model_evaluation"},
                                       ![r].is_model_accepted =
                                           IF accept THEN "true" ELSE "false"]
                           ELSE [seen EXCEPT ![r] =
                                   Raise(@, "CustomException", "external")]
    /\ UNCHANGED <<config, prodReg, s3, svc, clients>>

\* ---- push ----
ShouldPushAlways(is_model_accepted) == TRUE

\* if model_evaluation_artifact.is_model_accepted:
ShouldPush(is_model_accepted) == is_model_accepted = "true"

\* initiate_model_pusher up to the first registry call: the tag of the
\* staging version (approved in promote_in_mlflow, rejected otherwise)
initiate_model_pusher(r) ==
    /\ run[r].pc = "push"
    /\ \E ok \in BOOLEAN :
         LET base == Invoke(r, "model_pusher")
             v == run[r].model_registry_version
         IN IF ~ok
               THEN /\ run' = [base EXCEPT ![r] =
                                 Raise(@, "CustomException", "external")]
                    /\ UNCHANGED devReg
            ELSE IF ShouldPush(run[r].is_model_accepted)
               THEN /\ devReg' = SetValidationTag(devReg, v, "approved")
                    /\ run' = [base EXCEPT ![r].pc = "copy"]
            ELSE /\ devReg' = SetValidationTag(devReg, v, "rejected")
                 /\ run' = [base EXCEPT ![r].pc = "done",
                                        ![r].returned = @ \cup {"model_pusher"},
                                        ![r].promoted = "false"]
    /\ UNCHANGED <<config, stagingReg, prodReg, s3, svc, clients>>

\* promote_in_mlflow, step 2: copy_model_version into the production registry
promote_copy(r) ==
    /\ run[r].pc = "copy"
    /\ \E ok \in BOOLEAN :
         LET v == run[r].model_registry_version
             reg == RegisterVersion(prodReg,
                        [model |-> devReg[v].model, source |-> v,
                         aliases |-> {}])
         IN IF ok
               THEN /\ prodReg' = reg
                    /\ run' = [run EXCEPT ![r].pc = "alias",
                                          ![r].prod_version = Len(reg)]
            ELSE /\ run' = Fail(r, "CustomException")
                 /\ UNCHANGED prodReg
    /\ UNCHANGED <<config, devReg, stagingReg, s3, svc, clients>>

AliasTargetSource(source_registry_version, dst_version) ==
    source_registry_version

\* the version promote_in_mlflow gives the alias to: dst_version.version
AliasTarget(source_registry_version, dst_version) == dst_version

\* promote_in_mlflow, step 3: set_registered_model_alias(prod, "champion")
promote_alias(r) ==
    /\ run[r].pc = "alias"
    /\ \E ok \in BOOLEAN :
         IF ok
            THEN /\ prodReg' = SetRegisteredModelAlias(prodReg, "champion",
                                   AliasTarget(run[r].model_registry_version,
                                               run[r].prod_version))
                 /\ run' = [run EXCEPT ![r].pc = "deploy",
                                       ![r].aliasAssigned =
                                           AliasTarget(run[r].model_registry_version,
                                                       run[r].prod_version),
                                       ![r].aliasBefore = ChampionVersion]
         ELSE /\ run' = Fail(r, "CustomException")
              /\ UNCHANGED prodReg
    /\ UNCHANGED <<config, devReg, stagingReg, s3, svc, clients>>

\* deploy_to_s3 up to the upload: get_model_version, download_artifacts,
\* metadata.json written into the temporary directory
deploy_to_s3(r) ==
    /\ run[r].pc = "deploy"
    /\ \E ok \in BOOLEAN :
         run' = IF ok
                   THEN [run EXCEPT ![r].pc = "upload",
                                    ![r].uploadLeft = BundleKeys]
                ELSE Fail(r, "CustomException")
    /\ UNCHANGED <<config, registry, s3, svc, clients>>

\* os.walk is top-down: the files of the root (metadata.json) come before
\* the files of model/, which come in directory order
NextUploads(left) == IF MetadataKey \in left THEN {MetadataKey} ELSE left

\* upload_folder_to_s3: one s3.upload_file per file
upload_file(r) ==
    /\ run[r].pc = "upload"
    /\ run[r].uploadLeft # {}
    /\ \E k \in NextUploads(run[r].uploadLeft), ok \in BOOLEAN :
         IF ok
            THEN /\ s3' = [s3 EXCEPT ![k] = run[r].prod_version]
                 /\ run' = [run EXCEPT ![r].uploadLeft = @ \ {k}]
         ELSE /\ run' = Fail(r, "CustomException")
              /\ UNCHANGED s3
    /\ UNCHANGED <<config, registry, svc, clients>>

\* the rest of deploy_to_s3 (requirements.txt) and the return of
\* initiate_model_pusher: promoted = {"promoted": True}
push_return(r) ==
    /\ run[r].pc = "upload"
    /\ run[r].uploadLeft = {}
    /\ \E ok \in BOOLEAN :
         run' = IF ok
                   THEN [run EXCEPT ![r].pc = "done",
                                    ![r].returned = @ \cup {"model_pusher"},
                                    ![r].promoted = "true"]
                ELSE Fail(r, "CustomException")
    /\ UNCHANGED <<config, registry, s3, svc, clients>>

\* the run's process ends: its artifacts and its exception are gone, the
\* registry and the storage location stay
ExitRun(r) ==
    /\ run[r].pc \in {"done", "failed"}
    /\ run' = [run EXCEPT ![r] = [NewRun EXCEPT !.pc = "exited"]]
    /\ UNCHANGED <<config, registry, s3, svc, clients>>

\* ---- specification: training runs one after another ----
Quiescent == \A q \in Runs : ~Active(q)

StartNextRun(r) == Quiescent /\ \E o \in {"flow", "pipeline"} : StartRun(r, o)

Stage(r) ==
    \/ data_ingestion_task(r)
    \/ data_validation_task(r)
    \/ data_transformation_task(r)
    \/ model_trainer_task(r)
    \/ model_evaluation_task(r)
    \/ initiate_model_pusher(r)
    \/ promote_copy(r)
    \/ promote_alias(r)
    \/ deploy_to_s3(r)
    \/ upload_file(r)
    \/ push_return(r)
    \/ ExitRun(r)

Next == \E r \in Runs : StartNextRun(r) \/ Stage(r)

Spec == Init /\ [][Next]_vars

\* ---- serving: PredictionService ----
NoModel == [k \in ModelKeys |-> None]

\* list_objects_v2 returns the keys under the prefix in ascending key order
ListedKeys(store) ==
    (IF store[MetadataKey] # None THEN <<MetadataKey>> ELSE <<>>)
    \o (IF store["model/MLmodel"] # None THEN <<"model/MLmodel">> ELSE <<>>)
    \o (IF store["model/model.pkl"] # None THEN <<"model/model.pkl">> ELSE <<>>)

\* PredictionService.__init__ swallows any exception of the load
LoadFailed ==
    [svc EXCEPT !.pc = "running", !.toDownload = <<>>,
                !.constructed = TRUE, !.ready = Len(prodReg)]

MayLoadAnytime(pc) == pc \in {"off", "running"}

\* _load_model_from_s3 has one caller, __init__
MayLoad(pc) == pc = "off"

\* __init__ and the listing at the start of download_s3_folder
service_init(ok) ==
    /\ MayLoad(svc.pc)
    /\ svc' = IF ok
                 THEN [svc EXCEPT !.pc = "download",
                                  !.toDownload = ListedKeys(s3)]
              ELSE LoadFailed
    /\ UNCHANGED <<training, clients>>

\* download_s3_folder: one s3.download_file per listed key
download_file(ok) ==
    /\ svc.pc = "download"
    /\ svc.toDownload # <<>>
    /\ svc' = IF ok
                 THEN [svc EXCEPT !.toDownload = Tail(@),
                          !.local[Head(svc.toDownload)] =
                              s3[Head(svc.toDownload)]]
              ELSE LoadFailed
    /\ UNCHANGED <<training, clients>>

\* metadata.get("version", "unknown"), "unknown" without a readable file
MetadataVersion(local, readable) ==
    IF local[MetadataKey] # None /\ readable THEN local[MetadataKey] ELSE Unknown

\* the rest of _load_model_from_s3: metadata.json, then pyfunc.load_model
load_model(readable, ok) ==
    /\ svc.pc = "download"
    /\ svc.toDownload = <<>>
    /\ svc' = [svc EXCEPT
                 !.pc = "running",
                 !.constructed = TRUE,
                 !.ready = Len(prodReg),
                 !.model_version = MetadataVersion(svc.local, readable),
                 !.model = IF ok /\ \A k \in ModelKeys : svc.local[k] # None
                              THEN [k \in ModelKeys |-> svc.local[k]]
                           ELSE NoModel]
    /\ UNCHANGED <<training, clients>>

Serve ==
    \/ \E ok \in BOOLEAN : service_init(ok)
    \/ \E ok \in BOOLEAN : download_file(ok)
    \/ \E readable \in BOOLEAN, ok \in BOOLEAN : load_model(readable, ok)

\* the serving process is replaced by a new one (predictor is built when
\* the application module is imported)
restart ==
    /\ svc.constructed
    /\ svc' = NewService
    /\ UNCHANGED <<training, clients>>

\* ---- specification: serving processes start while runs push ----
NextServe == Next \/ Serve \/ restart

\* the configuration and the staging registry do not matter to serving
InitServe ==
    /\ Init
    /\ expected_score = 0
    /\ change_threshold = 0
    /\ devReg = <<>>

SpecServe == InitServe /\ [][NextServe]_vars

\* ---- the state after n accepted runs ----
DevVersions(n) ==
    [v \in 1..n |-> [model |-> v, status |-> "trained",
                     validation_status |-> "approved",
                     aliases |-> IF v = n THEN {"candidate"} ELSE {}]]

StagingVersions(n) == [v \in 1..n |-> [model |-> v, source |-> v]]

ProdVersions(n) ==
    [v \in 1..n |-> [model |-> v, source |-> v,
                     aliases |-> IF v = n THEN {"champion"} ELSE {}]]

\* runs 1..n were accepted, pushed their model and exited
Pushed(n) ==
    /\ run = [r \in Runs |->
                IF r <= n THEN [NewRun EXCEPT !.pc = "exited"] ELSE NewRun]
    /\ expected_score = 0
    /\ change_threshold = 0
    /\ devReg = DevVersions(n)
    /\ stagingReg = StagingVersions(n)
    /\ prodReg = ProdVersions(n)
    /\ s3 = [k \in BundleKeys |-> n]
    /\ svc = NewService
    /\ api = NewApi
    /\ mp = NewPredictor
    /\ mon = NewMonitor
    /\ ingestion = NewIngestion
    /\ validation = NewValidation

\* runs 1..n-1 were accepted, pushed and exited; run n was accepted by its
\* evaluation and is about to call initiate_model_pusher
AtPush(n) ==
    /\ run = [r \in Runs |->
                IF r < n THEN [NewRun EXCEPT !.pc = "exited"]
                ELSE IF r > n THEN NewRun
                ELSE [NewRun EXCEPT
                        !.pc = "push", !.orch = "flow", !.attempts = 1,
                        !.invoked = <<"data_ingestion", "data_validation",
                                      "data_transformation",
                                      "initiate_data_transformation",
                                      "model_trainer", "model_evaluation">>,
                        !.validation_status = "true",
                        !.test_roc_auc = 1, !.metric_score = 1,
                        !.model_registry_version = n,
                        !.evalState = "NoChampionExists",
                        !.prod_model_auc = 0,
                        !.championAtEval = n - 1,
                        !.is_model_accepted = "true",
                        !.returned = {"data_ingestion", "data_validation",
                                      "data_transformation", "model_trainer",
                                      "model_evaluation"}]]
    /\ expected_score = 0
    /\ change_threshold = 0
    /\ devReg = DevVersions(n)
    /\ stagingReg = StagingVersions(n)
    /\ prodReg = ProdVersions(n - 1)
    /\ s3 = [k \in BundleKeys |-> n - 1]
    /\ svc = NewService
    /\ api = NewApi
    /\ mp = NewPredictor
    /\ mon = NewMonitor
    /\ ingestion = NewIngestion
    /\ validation = NewValidation

\* the steps of initiate_model_pusher
PushSteps(r) ==
    \/ initiate_model_pusher(r)
    \/ promote_copy(r)
    \/ promote_alias(r)
    \/ deploy_to_s3(r)
    \/ upload_file(r)
    \/ push_return(r)

\* ---- specification: two training runs at the same time ----
\* run r has trained a model of this score and registered it as version v
Trained(r, v, score) ==
    [NewRun EXCEPT
        !.pc = "evaluate", !.orch = "flow", !.attempts = 1,
        !.invoked = <<"data_ingestion", "data_validation",
                      "data_transformation", "initiate_data_transformation",
                      "model_trainer">>,
        !.validation_status = "true",
        !.test_roc_auc = score, !.metric_score = score,
        !.model_registry_version = v,
        !.returned = {"data_ingestion", "data_validation",
                      "data_transformation", "model_trainer"}]

PendingVersion(r) ==
    [model |-> r, status |-> "trained", validation_status |-> "pending",
     aliases |-> {}]

\* two flow runs were started together; both have registered their model
\* and neither has evaluated it yet
InitRace ==
    \E before \in {<<>>, <<[model |-> 0, status |-> "trained",
                             validation_status |-> "approved",
                             aliases |-> {"live"}]>>},
       score1 \in Scores, score2 \in Scores :
        /\ run = [r \in Runs |->
                    IF r = 1 THEN Trained(1, Len(before) + 1, score1)
                    ELSE IF r = 2 THEN Trained(2, Len(before) + 2, score2)
                    ELSE NewRun]
        /\ expected_score = 0
        /\ change_threshold = 0
        /\ devReg = before \o <<PendingVersion(1), PendingVersion(2)>>
        /\ stagingReg = <<>>
        /\ prodReg = <<>>
        /\ s3 = [k \in BundleKeys |-> None]
        /\ svc = NewService
        /\ api = NewApi
        /\ mp = NewPredictor
        /\ mon = NewMonitor
        /\ ingestion = NewIngestion
        /\ validation = NewValidation

NextRace == \E r \in Runs : model_evaluation_task(r) \/ PushSteps(r)

SpecRace == InitRace /\ [][NextRace]_vars

\* ---- ModelPredictor: predictor/predict.py ----
Inputs == {"empty", "all_null", "valid", "wrong_columns"}

NeedsLoadAlways(_model) == TRUE

\* if self._model is None: self._model = self._load_model()
NeedsLoad(_model) == _model = None

\* _load_model: models:/<prod_registry_name>@champion, then the version
\* ("unknown" when get_model_info raises)
LoadedPredictor(readable) ==
    [mp EXCEPT !._model = ChampionVersion,
               !._model_version = IF readable THEN ChampionVersion
                                  ELSE Unknown]

\* the property `model`: the predictor after the access, CustomException
\* when the load raised
ModelProperty(ok, readable) ==
    LET must == NeedsLoad(mp._model)
        fails == must /\ (~ok \/ Champion = {})
    IN [predictor |-> IF must /\ ~fails THEN LoadedPredictor(readable) ELSE mp,
        loaded |-> must,
        err |-> IF fails THEN "CustomException" ELSE "none"]

Call(op, input, got, invoked, err) ==
    [got.predictor EXCEPT !.calls =
        Append(@, [op |-> op, input |-> input, err |-> err,
                   before |-> mp._model, after |-> got.predictor._model,
                   loaded |-> got.loaded, invoked |-> invoked])]

\* predictor.model is read
model_access(ok, readable) ==
    /\ Len(mp.calls) < MaxCalls
    /\ LET got == ModelProperty(ok, readable)
       IN mp' = Call("model", "none", got, FALSE, got.err)
    /\ UNCHANGED <<training, svc, api, mon, components>>

InputAlwaysAccepted(input) == TRUE

\* _validate_input: neither empty nor all null
ValidInput(input) == input \notin {"empty", "all_null"}

\* ModelPredictor.predict(input_data)
predictor_predict(input, ok, readable, runs) ==
    /\ Len(mp.calls) < MaxCalls
    /\ LET untouched == [predictor |-> mp, loaded |-> FALSE, err |-> "none"]
           got == ModelProperty(ok, readable)
       IN mp' = IF ~ValidInput(input)
                   THEN Call("predict", input, untouched, FALSE,
                             "CustomException")
                ELSE IF got.err # "none"
                   THEN Call("predict", input, got, FALSE, got.err)
                ELSE Call("predict", input, got, TRUE,
                          IF runs /\ input = "valid" THEN "none"
                          ELSE "CustomException")
    /\ UNCHANGED <<training, svc, api, mon, components>>

Predictor ==
    \/ \E ok \in BOOLEAN, readable \in BOOLEAN : model_access(ok, readable)
    \/ \E input \in Inputs, ok \in BOOLEAN, readable \in BOOLEAN,
          runs \in BOOLEAN : predictor_predict(input, ok, readable, runs)

\* ---- specification: a predictor is used while a run pushes ----
NextPredictor == (\E r \in Runs : PushSteps(r)) \/ Predictor

\* a champion exists and the second run is about to push
InitPredictor == AtPush(2)

SpecPredictor == InitPredictor /\ [][NextPredictor]_vars

\* ---- the application: api/app.py ----
Kinds == {"single", "batch"}

NewRequest(kind) ==
    [kind |-> kind, pc |-> "depends", status |-> 0, called |-> FALSE,
     key |-> <<>>]

\* a request reaches /predict or /predict_batch
receive(kind) ==
    /\ svc.constructed
    /\ svc.pc = "running"
    /\ Len(api.reqs) < MaxRequests
    /\ api' = [api EXCEPT !.reqs = Append(@, NewRequest(kind))]
    /\ UNCHANGED <<training, svc, mp, mon, components>>

ModelAvailableAlways(model) == TRUE

\* if predictor.model is None: raise HTTPException(status_code=503)
model_available(model) == model # NoModel

\* Depends(model_available), before the body of the handler
depends(i) ==
    /\ api.reqs[i].pc = "depends"
    /\ api' = IF model_available(svc.model)
                 THEN [api EXCEPT !.reqs[i].pc = "predict"]
              ELSE [api EXCEPT !.reqs[i].pc = "done",
                               !.reqs[i].status = 503]
    /\ UNCHANGED <<training, svc, mp, mon, components>>

\* predictor.predict(df): PredictionService.predict
predict(i) ==
    /\ api.reqs[i].pc = "predict"
    /\ \E ok \in BOOLEAN :
         api' = IF svc.model = NoModel
                   THEN [api EXCEPT !.reqs[i].pc = "done",
                                    !.reqs[i].status = 500]
                ELSE IF ok
                   THEN [api EXCEPT !.reqs[i].pc = "log",
                                    !.reqs[i].called = TRUE]
                ELSE [api EXCEPT !.reqs[i].pc = "done",
                                 !.reqs[i].called = TRUE,
                                 !.reqs[i].status = 500]
    /\ UNCHANGED <<training, svc, mp, mon, components>>

LogKeyOfDate(date_str, request_id) == <<date_str, 0>>

\* key = f"{prefix}/date={date_str}/id={request_id}.json"
LogKey(date_str, request_id) == <<date_str, request_id>>

\* request_id = str(uuid.uuid4()), then upload_log_to_s3(log_data, ...)
upload_log_to_s3(i) ==
    /\ api.reqs[i].pc = "log"
    /\ \E ok \in BOOLEAN :
         LET request_id == api.uuids + 1
             key == LogKey(api.today, request_id)
         IN api' = IF ok
                      THEN [api EXCEPT !.uuids = request_id,
                                       !.logs = @ \cup {key},
                                       !.reqs[i].key = key,
                                       !.reqs[i].pc = "respond"]
                   ELSE [api EXCEPT !.uuids = request_id,
                                    !.reqs[i].pc = "done",
                                    !.reqs[i].status = 500]
    /\ UNCHANGED <<training, svc, mp, mon, components>>

\* return PredictionResponse(**output)
respond(i) ==
    /\ api.reqs[i].pc = "respond"
    /\ api' = [api EXCEPT !.reqs[i].pc = "done", !.reqs[i].status = 200]
    /\ UNCHANGED <<training, svc, mp, mon, components>>

\* GET /health
health_check ==
    /\ svc.constructed
    /\ svc.pc = "running"
    /\ api' = [api EXCEPT !.health =
                  <<[model_version |-> svc.model_version,
                     model_loaded |-> svc.model # NoModel]>>]
    /\ UNCHANGED <<training, svc, mp, mon, components>>

\* midnight UTC passes
next_day ==
    /\ api.today < MaxDays
    /\ api' = [api EXCEPT !.today = @ + 1]
    /\ UNCHANGED <<training, svc, mp, mon, components>>

Api ==
    \/ \E kind \in Kinds : receive(kind)
    \/ \E i \in DOMAIN api.reqs :
          depends(i) \/ predict(i) \/ upload_log_to_s3(i) \/ respond(i)
    \/ health_check
    \/ next_day

\* ---- specification: the application serves requests ----
NextApi == Serve \/ Api

\* nothing was ever pushed, or one run was
InitApi == Pushed(0) \/ Pushed(1)

SpecApi == InitApi /\ [][NextApi]_vars

\* ---- components on their own: split_data and is_columns_exist ----
\* train_test_split_ratio is num / RatioDen
RatioDen == 4

Names == 1..MaxNames

\* the rows of a snapshot, by position
Rows(n) == 1..n

\* the permutation train_test_split draws from random_state: the same for
\* the same n and seed
Shuffle(n, seed) == [i \in 1..n |-> ((i + seed - 1) % n) + 1]

\* n_test = ceil(test_size * n_samples)
TestCount(n, num) == (num * n + RatioDen - 1) \div RatioDen

\* test = permutation[:n_test]
TestRows(perm, n_test) == {perm[i] : i \in 1..n_test}

TrainRowsFromTest(perm, n_test) == {perm[i] : i \in n_test..Len(perm)}

\* train = permutation[n_test:]
TrainRows(perm, n_test) == {perm[i] : i \in (n_test + 1)..Len(perm)}

\* fetch_and_save_data writes the snapshot to the feature store
fetch_and_save_data(n) ==
    /\ ingestion.splits < MaxSplits
    /\ ingestion' = [ingestion EXCEPT !.rows = n]
    /\ UNCHANGED <<training, svc, api, mp, mon, validation>>

\* what a call of split_data can meet when it writes its two files
WriteOutcomes == {"ok", "training_fails", "testing_fails"}

\* split_data: read the feature store, train_test_split, write the training
\* file and then the testing file; train_test_split raises on no row and on
\* an empty training part, and every exception leaves as CustomException
split_data(outcome) ==
    /\ ingestion.splits < MaxSplits
    /\ LET n == ingestion.rows
           n_test == TestCount(n, ingestion.test_size)
           perm == Shuffle(n, ingestion.random_state)
           last == IF ingestion.splits > 0 /\ ingestion.err = "none"
                      THEN <<[rows |-> ingestion.snapshot,
                              training |-> ingestion.training,
                              testing |-> ingestion.testing]>>
                   ELSE <<>>
       IN ingestion' =
            IF n = 0 \/ n - n_test = 0 \/ outcome = "training_fails"
               THEN [ingestion EXCEPT !.splits = @ + 1,
                                      !.err = "CustomException"]
            ELSE IF outcome = "testing_fails"
               THEN [ingestion EXCEPT !.splits = @ + 1,
                                      !.training = TrainRows(perm, n_test),
                                      !.err = "CustomException"]
            ELSE [ingestion EXCEPT !.splits = @ + 1, !.err = "none",
                                   !.training = TrainRows(perm, n_test),
                                   !.testing = TestRows(perm, n_test),
                                   !.snapshot = n,
                                   !.previous = last]
    /\ UNCHANGED <<training, svc, api, mp, mon, validation>>

MissingColumnsOfData(all_schema, data_columns) ==
    {column \in data_columns : column \notin all_schema}

\* for column in self.config.all_schema: if column not in data.columns
MissingColumns(all_schema, data_columns) ==
    {column \in all_schema : column \notin data_columns}

\* DataValidation.is_columns_exist(data)
is_columns_exist(data_columns) ==
    /\ validation' =
          [validation EXCEPT
              !.columns = data_columns,
              !.result = IF MissingColumns(validation.all_schema,
                                           data_columns) # {}
                            THEN "false" ELSE "true"]
    /\ UNCHANGED <<training, svc, api, mp, mon, ingestion>>

NextComponents ==
    \/ \E n \in 0..MaxRows : fetch_and_save_data(n)
    \/ \E outcome \in WriteOutcomes : split_data(outcome)
    \/ \E data_columns \in SUBSET Names : is_columns_exist(data_columns)

\* the configuration of the two objects
InitComponents ==
    /\ run = [r \in Runs |-> NewRun]
    /\ expected_score = 0
    /\ change_threshold = 0
    /\ devReg = <<>>
    /\ stagingReg = <<>>
    /\ prodReg = <<>>
    /\ s3 = [k \in BundleKeys |-> None]
    /\ svc = NewService
    /\ api = NewApi
    /\ mp = NewPredictor
    /\ mon = NewMonitor
    /\ \E num \in 1..(RatioDen - 1), seed \in 0..MaxSeed :
          ingestion = [NewIngestion EXCEPT !.test_size = num,
                                           !.random_state = seed]
    /\ \E all_schema \in SUBSET Names :
          validation = [NewValidation EXCEPT !.all_schema = all_schema]

SpecComponents == InitComponents /\ [][NextComponents]_vars

\* ---- monitoring: data_monitoring_flow ----
\* if len(current_data) < 50: warning
MinRows == 50

PValues == 0..MaxP

DriftedOrEqual(p_value, threshold) == p_value <= threshold

\* drifted = p_value < threshold
Drifted(p_value, threshold) == p_value < threshold

\* the loop of detect_data_drift over reference_data.columns, from column
\* col on, with the report built so far
RECURSIVE DriftLoop(_, _, _, _)
DriftLoop(p_values, threshold, col, drift_report) ==
    IF col > Len(p_values)
       THEN drift_report
    ELSE LET drifted == Drifted(p_values[col], threshold)
         IN DriftLoop(p_values, threshold, col + 1,
                [drift_report EXCEPT
                    !.features = Append(@, [p_value |-> p_values[col],
                                            drifted |-> drifted]),
                    !.drift_detected = IF drifted THEN TRUE ELSE @])

DriftReport(p_values, threshold) ==
    DriftLoop(p_values, threshold, 1,
              [drift_detected |-> FALSE, threshold |-> threshold,
               features |-> <<>>])

MonitorFails == [mon EXCEPT !.pc = "failed"]

\* a run of the flow starts (one at a time, on its schedule)
data_monitoring_flow(threshold) ==
    /\ mon.pc \in {"idle", "returned", "failed"}
    /\ mon.no < MaxMonitorRuns
    /\ mon' = [NewMonitor EXCEPT !.pc = "reference", !.no = mon.no + 1,
                                 !.threshold = threshold]
    /\ UNCHANGED <<training, svc, api, mp, components>>

load_reference_data(ok, columns) ==
    /\ mon.pc = "reference"
    /\ mon' = IF ok THEN [mon EXCEPT !.pc = "fetch", !.columns = columns]
              ELSE MonitorFails
    /\ UNCHANGED <<training, svc, api, mp, components>>

\* fetch_data_from_s3 and the flow's test of current_data.empty
fetch_data_from_s3(ok, rows) ==
    /\ mon.pc = "fetch"
    /\ mon' = IF ~ok THEN MonitorFails
              ELSE IF rows = 0 THEN [mon EXCEPT !.pc = "returned"]
              ELSE [mon EXCEPT !.pc = "detect", !.rows = rows]
    /\ UNCHANGED <<training, svc, api, mp, components>>

\* the task detect_data_drift; the p-values are what ks_2samp returns
detect_data_drift(ok) ==
    /\ mon.pc = "detect"
    /\ \E p_values \in [1..mon.columns -> PValues] :
         mon' = IF ok
                   THEN [mon EXCEPT !.pc = "report",
                            !.p_value = p_values,
                            !.warned = mon.rows < MinRows,
                            !.drift_report =
                                <<DriftReport(p_values, mon.threshold)>>]
                ELSE MonitorFails
    /\ UNCHANGED <<training, svc, api, mp, components>>

generate_evidently_report(ok) ==
    /\ mon.pc = "report"
    /\ mon' = IF ok THEN [mon EXCEPT !.pc = "trigger", !.reported = TRUE]
              ELSE MonitorFails
    /\ UNCHANGED <<training, svc, api, mp, components>>

\* retraining_trigger: run_deployment only when the report says drift
retraining_trigger(ok) ==
    /\ mon.pc = "trigger"
    /\ mon' = IF ~mon.drift_report[1].drift_detected
                 THEN [mon EXCEPT !.pc = "returned"]
              ELSE [mon EXCEPT !.triggered = @ + 1,
                               !.pc = IF ok THEN "returned" ELSE "failed"]
    /\ UNCHANGED <<training, svc, api, mp, components>>

NextMonitor ==
    \/ \E threshold \in PValues : data_monitoring_flow(threshold)
    \/ \E ok \in BOOLEAN, columns \in 0..MaxCols :
          load_reference_data(ok, columns)
    \/ \E ok \in BOOLEAN, rows \in {0, MinRows - 1, MinRows} :
          fetch_data_from_s3(ok, rows)
    \/ \E ok \in BOOLEAN : detect_data_drift(ok)
    \/ \E ok \in BOOLEAN : generate_evidently_report(ok)
    \/ \E ok \in BOOLEAN : retraining_trigger(ok)

\* no training run and no serving process takes part
InitMonitor == InitServe

SpecMonitor == InitMonitor /\ [][NextMonitor]_vars

\* Prefect runs a started flow to its end
SpecMonitorFair == SpecMonitor /\ WF_vars(NextMonitor)

\* ---- properties ----
Evaluated(r) == run[r].evalState # "none"

Count(seq, name) == Cardinality({i \in DOMAIN seq : seq[i] = name})

\* C1: a call of initiate_model_pusher that returns reports promoted = true
\* exactly when is_model_accepted is true, and it has given the champion
\* alias to a version exactly in that case, the version being the one it
\* just copied into the production registry; a call that has not returned
\* (or raised) has given the alias only if is_model_accepted is true.
C1_PromotedIffAccepted ==
    \A r \in Runs :
        /\ run[r].aliasAssigned # None => run[r].is_model_accepted = "true"
        /\ run[r].promoted # "none" =>
              /\ run[r].promoted = run[r].is_model_accepted
              /\ run[r].aliasAssigned # None <=> run[r].is_model_accepted = "true"
              /\ run[r].is_model_accepted = "true" =>
                    /\ run[r].aliasAssigned = run[r].prod_version
                    /\ prodReg[run[r].prod_version].source =
                           run[r].model_registry_version

C1_Witness ==
    \E r \in Runs :
        /\ run[r].pc = "done"
        /\ run[r].promoted = "true"
        /\ run[r].aliasAssigned # None

\* C2: when a champion exists, the challenger is accepted if and only if
\* its score exceeds the champion's score by more than change_threshold.
C2_AcceptedIffBeatsMargin ==
    \A r \in Runs :
        (run[r].evalState = "ChampionExists" /\ run[r].is_model_accepted # "none")
            => (run[r].is_model_accepted = "true"
                  <=> run[r].metric_score >
                          run[r].prod_model_auc + change_threshold)

\* C3: when no champion exists, evaluation accepts the challenger whatever
\* its score is, the lowest score included.
C3_BootstrapAccepts ==
    \A r \in Runs :
        (/\ "model_evaluation" \in run[r].returned
         /\ run[r].championAtEval = None
         /\ run[r].liveAtEval = None)
            => run[r].is_model_accepted = "true"

\* C4: once the champion alias is assigned in the production registry, the
\* evaluation of every later run takes the ChampionExists branch and loads
\* the production version that holds the alias.
C4_LaterRunsLoadChampion ==
    \A r \in Runs :
        (Evaluated(r) /\ run[r].championAtEval # None)
            => /\ run[r].evalState = "ChampionExists"
               /\ run[r].loaded = <<"prod", run[r].championAtEval>>

\* C5: a run whose validation artifact has validation_status = false fails
\* at the guard of the transformation stage: the transformation component,
\* training, evaluation and push are never invoked, and no step of the run
\* changes the registry or the production storage location.
C5_State ==
    \A r \in Runs :
        run[r].validation_status = "false" =>
            /\ run[r].pc \in {"transform", "failed"}
            /\ run[r].pc = "failed" =>
                  /\ run[r].err # "none"
                  /\ run[r].invoked[Len(run[r].invoked)] = "data_transformation"
            /\ \A i \in DOMAIN run[r].invoked :
                  run[r].invoked[i] \notin
                      {"initiate_data_transformation", "model_trainer",
                       "model_evaluation", "model_pusher"}
            /\ run[r].model_registry_version = None
            /\ run[r].prod_version = None

C5_Step ==
    (\E r \in Runs : run[r].validation_status = "false")
        => (registry' = registry /\ s3' = s3)

C5_ValidationFailureShortCircuits == [](C5_State) /\ [][C5_Step]_vars

C5_Witness ==
    \E r \in Runs :
        /\ run[r].validation_status = "false"
        /\ run[r].pc = "failed"
        /\ run[r].err # "none"

\* the stages in the order of training_flow and run_pipeline
Stages ==
    <<"data_ingestion", "data_validation", "data_transformation",
      "model_trainer", "model_evaluation", "model_pusher">>

StageNo(name) == CHOOSE k \in DOMAIN Stages : Stages[k] = name

\* the tasks a run has started, without the component call inside a task
Started(r) ==
    SelectSeq(run[r].invoked, LAMBDA n : n # "initiate_data_transformation")

\* ingest, validate, transform, train, evaluate, push in this order, a
\* stage only after the previous one returned its artifact; after a raise
\* nothing more is invoked and there is no pusher artifact
OrderedRun(r) ==
    LET st == Started(r)
    IN /\ st # <<>> => st[1] = "data_ingestion"
       /\ \A i \in DOMAIN st : i > 1 =>
             \/ st[i] = "data_ingestion" /\ st[i - 1] = "data_ingestion"
             \/ /\ StageNo(st[i]) = StageNo(st[i - 1]) + 1
                /\ st[i - 1] \in run[r].returned
       /\ run[r].pc = "failed" =>
             /\ run[r].err # "none"
             /\ run[r].promoted = "none"
             /\ st # <<>>
             /\ st[Len(st)] \notin run[r].returned

NothingAfterRaise ==
    \A r \in Runs :
        run[r].pc = "failed" =>
            \/ run'[r] = run[r]
            \/ run'[r].pc = "exited"

C6_State ==
    \A r \in Runs :
        /\ OrderedRun(r)
        /\ run[r].pc = "failed" =>
              \/ run[r].err = "CustomException"
              \/ /\ run[r].err = "Exception"
                 /\ run[r].orch = "flow"
                 /\ run[r].validation_status = "false"
                 /\ Started(r)[Len(Started(r))] = "data_transformation"

C8_LoadSeesOnePromotion ==
    (svc.pc = "running" /\ svc.model # NoModel)
        => /\ \A j, k \in ModelKeys : svc.model[j] = svc.model[k]
           /\ svc.model_version # Unknown =>
                 \A k \in ModelKeys : svc.model[k] = svc.model_version

\* C9: a test metric below expected_score makes the trainer raise with no
\* version registered for the run and neither evaluation nor push invoked;
\* a metric equal to expected_score (or above) passes and is registered.
C9_BelowExpectedScoreIsFatal ==
    \A r \in Runs :
        run[r].test_roc_auc # Unknown =>
            IF run[r].test_roc_auc < expected_score
               THEN /\ run[r].pc = "failed"
                    /\ run[r].err = "CustomException"
                    /\ run[r].cause = "below_expected_score"
                    /\ run[r].model_registry_version = None
                    /\ \A v \in DOMAIN devReg : devReg[v].model # r
                    /\ Count(run[r].invoked, "model_evaluation") = 0
                    /\ Count(run[r].invoked, "model_pusher") = 0
               ELSE /\ run[r].cause # "below_expected_score"
                    /\ "model_trainer" \in run[r].returned =>
                          /\ run[r].metric_score = run[r].test_roc_auc
                          /\ devReg[run[r].model_registry_version].model = r

C9_Witness ==
    \E r \in Runs :
        /\ run[r].test_roc_auc # Unknown
        /\ run[r].test_roc_auc < expected_score
        /\ run[r].pc = "failed"
        /\ run[r].cause = "below_expected_score"

\* C10: the ingestion stage is attempted at most retries + 1 = 3 times in a
\* run; when the last attempt fails nothing else is invoked; every other
\* stage is attempted at most once.
C10_BoundedIngestionRetries ==
    \A r \in Runs :
        /\ run[r].attempts <= retries + 1
        /\ Count(run[r].invoked, "data_ingestion") = run[r].attempts
        /\ \A k \in 2..Len(Stages) : Count(run[r].invoked, Stages[k]) <= 1
        /\ Count(run[r].invoked, "initiate_data_transformation") <= 1
        /\ (run[r].pc = "failed" /\ "data_ingestion" \notin run[r].returned) =>
              Len(run[r].invoked) = run[r].attempts

C10_Witness ==
    \E r \in Runs :
        /\ run[r].orch = "flow"
        /\ run[r].attempts = retries + 1
        /\ run[r].pc = "failed"
        /\ "data_ingestion" \notin run[r].returned

\* C11: an ingestion attempt is retried only after a transient connectivity
\* failure of the data source; an attempt that fails for another reason
\* (query error, failure while splitting) ends the stage.
C11_RetryOnlyOnConnectivity ==
    \A r \in Runs :
        (run[r].pc = "ingest" /\ run[r].attempts > 0)
            => run[r].retrying = "connect"

\* C12: with is_model_accepted = false, initiate_model_pusher tags the
\* run's version in the staging registry namespace (the registry the
\* trainer registered it in) rejected and returns promoted = false with no
\* error, the tag call itself permitting; whether it returns or not, the
\* production registry, the champion alias and the production storage
\* location stay as they were.
C12_State ==
    \A r \in Runs :
        (run[r].is_model_accepted = "false"
            /\ Count(run[r].invoked, "model_pusher") > 0)
            => /\ run[r].prod_version = None
               /\ run[r].aliasAssigned = None
               /\ \/ /\ run[r].pc = "done"
                     /\ run[r].err = "none"
                     /\ run[r].promoted = "false"
                     /\ devReg[run[r].model_registry_version].validation_status
                            = "rejected"
                  \/ /\ run[r].pc = "failed"
                     /\ run[r].err = "CustomException"
                     /\ run[r].cause = "external"
                     /\ run[r].promoted = "none"

C12_Step ==
    (\E r \in Runs : run[r].is_model_accepted = "false")
        => /\ prodReg' = prodReg
           /\ s3' = s3
           /\ stagingReg' = stagingReg

C12_RejectedIsNotPromoted == [](C12_State) /\ [][C12_Step]_vars

C12_Witness ==
    \E r \in Runs :
        /\ run[r].is_model_accepted = "false"
        /\ run[r].pc = "done"
        /\ run[r].promoted = "false"
        /\ Champion # {}
        /\ devReg[run[r].model_registry_version].validation_status = "rejected"

\* C15: when a required column is missing from the validated data, the
\* validation stage raises nothing: it returns an artifact with
\* validation_status = false, and the run halts at the transformation guard.
C15_MissingColumnsGiveNegativeArtifact ==
    \A r \in Runs :
        run[r].cause = "missing_columns"
            => /\ "data_validation" \in run[r].returned
               /\ run[r].validation_status = "false"
               /\ Started(r)[Len(Started(r))] = "data_transformation"

\* C13: detect_data_drift marks a column drifted exactly when its p-value
\* is strictly below the threshold and sets drift_detected exactly when at
\* least one column is drifted, for any number of columns; fewer than 50
\* current rows change nothing but the warning.
C13_DriftIsAnyColumnBelowThreshold ==
    mon.drift_report # <<>> =>
        LET report == mon.drift_report[1]
        IN /\ Len(report.features) = mon.columns
           /\ report.threshold = mon.threshold
           /\ \A c \in 1..mon.columns :
                 /\ report.features[c].p_value = mon.p_value[c]
                 /\ report.features[c].drifted
                       <=> mon.p_value[c] < mon.threshold
           /\ report.drift_detected
                 <=> \E c \in 1..mon.columns : mon.p_value[c] < mon.threshold
           /\ mon.warned <=> mon.rows < 50

C13_Witness ==
    /\ mon.drift_report # <<>>
    /\ mon.rows < 50
    /\ mon.warned
    /\ mon.columns = 2
    /\ mon.p_value[1] = mon.threshold
    /\ mon.p_value[2] < mon.threshold
    /\ mon.drift_report[1].drift_detected

\* C14: in every run of the monitoring flow the training-flow deployment is
\* invoked at most once and only if drift was reported; a run that reports
\* drift eventually invokes it; a run that reports no drift, or finds no
\* logged inputs, never does.
C14_Safe ==
    /\ mon.triggered <= 1
    /\ mon.triggered = 1 =>
          /\ mon.drift_report # <<>>
          /\ mon.drift_report[1].drift_detected
    /\ (mon.drift_report = <<>> \/ ~mon.drift_report[1].drift_detected) =>
          mon.triggered = 0

C14_TriggeredIffDrift ==
    /\ [](C14_Safe)
    /\ \A k \in 1..MaxMonitorRuns :
          (/\ mon.no = k
           /\ mon.drift_report # <<>>
           /\ mon.drift_report[1].drift_detected)
             ~> (mon.no = k /\ mon.triggered = 1)

\* C16: when the model could not be loaded at start, the process runs all
\* the same, /health reports model_loaded = false, and every prediction
\* request, single or batch, is answered 503 with the model not called and
\* no request log written.
C16_NoModelMeans503 ==
    (svc.constructed /\ svc.model = NoModel) =>
        /\ svc.pc = "running"
        /\ api.health # <<>> => ~api.health[1].model_loaded
        /\ api.logs = {}
        /\ \A i \in DOMAIN api.reqs :
              /\ ~api.reqs[i].called
              /\ api.reqs[i].key = <<>>
              /\ api.reqs[i].pc \in {"depends", "done"}
              /\ api.reqs[i].pc = "done" => api.reqs[i].status = 503

C16_Witness ==
    /\ svc.constructed
    /\ svc.model = NoModel
    /\ api.health # <<>>
    /\ Len(api.reqs) = 2
    /\ api.reqs[1].kind = "single"
    /\ api.reqs[2].kind = "batch"
    /\ \A i \in DOMAIN api.reqs : api.reqs[i].status = 503

\* C17: once a PredictionService is constructed, its model handle and its
\* model_version stay what they are until the process is gone, whatever is
\* promoted meanwhile and whether or not the load succeeded; the model a
\* process serves comes from a promotion that had begun when its
\* construction ended.
C17_State ==
    \A k \in ModelKeys :
        svc.model[k] # None => (svc.constructed /\ svc.model[k] <= svc.ready)

C17_Step ==
    svc.constructed =>
        \/ svc' = NewService
        \/ /\ svc'.model = svc.model
           /\ svc'.model_version = svc.model_version
           /\ svc'.constructed

C17_HandleIsFixed == [](C17_State) /\ [][C17_Step]_vars

C17_Witness ==
    /\ svc.constructed
    /\ \A k \in ModelKeys : svc.model[k] = 1
    /\ svc.model_version = 1
    /\ Champion = {2}
    /\ \A k \in BundleKeys : s3[k] = 2

\* C18: every prediction request answered with success has had exactly one
\* log record written before the answer, under the UTC date of the write
\* and a fresh request identifier; no two requests share a log key.
C18_State ==
    /\ \A i \in DOMAIN api.reqs :
          /\ (api.reqs[i].pc = "respond" \/ api.reqs[i].status = 200)
                => /\ api.reqs[i].key \in api.logs
                   /\ api.reqs[i].called
          /\ \A j \in DOMAIN api.reqs :
                (i # j /\ api.reqs[i].key # <<>>)
                    => api.reqs[i].key # api.reqs[j].key
    /\ Cardinality(api.logs) =
          Cardinality({i \in DOMAIN api.reqs : api.reqs[i].key # <<>>})

C18_Step ==
    \A i \in DOMAIN api.reqs :
        /\ api'.reqs[i].key # api.reqs[i].key =>
              /\ api.reqs[i].key = <<>>
              /\ api.reqs[i].status = 0
              /\ api'.reqs[i].key[1] = api.today
              /\ \A k \in api.logs : k[2] # api'.reqs[i].key[2]
              /\ api'.logs = api.logs \cup {api'.reqs[i].key}
        /\ (api'.reqs[i].status = 200 /\ api.reqs[i].status # 200) =>
              api.reqs[i].key \in api.logs

C18_OneLogPerSuccess == [](C18_State) /\ [][C18_Step]_vars

C18_Witness ==
    /\ Len(api.reqs) = 2
    /\ api.reqs[1].kind # api.reqs[2].kind
    /\ \A i \in DOMAIN api.reqs : api.reqs[i].status = 200
    /\ api.reqs[1].key[1] = api.reqs[2].key[1]

\* C19: a ModelPredictor holds no model after construction; the first access
\* of `model` (or the first predict that reaches it) performs the load and
\* nothing before does; once a load has succeeded every later access
\* returns the same handle and loads nothing.
C19_LazyLoadOnce ==
    /\ mp.calls = <<>> => (mp._model = None /\ mp._model_version = None)
    /\ \A i \in DOMAIN mp.calls :
          LET c == mp.calls[i]
          IN /\ c.loaded <=> (c.before = None
                                /\ (c.op = "model"
                                     \/ c.input \notin {"empty", "all_null"}))
             /\ c.before # None => c.after = c.before
             /\ (c.loaded /\ c.err = "none") => c.after # None
             /\ i > 1 => c.before = mp.calls[i - 1].after
             /\ i = 1 => c.before = None
    /\ Cardinality({i \in DOMAIN mp.calls :
                        mp.calls[i].loaded /\ mp.calls[i].after # None}) <= 1
    /\ mp.calls # <<>> => mp._model = mp.calls[Len(mp.calls)].after

C19_Witness ==
    /\ Len(mp.calls) = 2
    /\ mp.calls[1].op = "model"
    /\ mp.calls[1].loaded
    /\ mp.calls[1].after = 1
    /\ ~mp.calls[2].loaded
    /\ mp.calls[2].after = 1
    /\ Champion = {2}

\* C20: ModelPredictor.predict raises CustomException for an empty input
\* and for an all-null input before the model is loaded or invoked, leaving
\* the predictor loaded or not loaded as it was; every other failure of a
\* prediction is a CustomException too.
C20_InvalidInputRaisesEarly ==
    \A i \in DOMAIN mp.calls :
        LET c == mp.calls[i]
        IN c.op = "predict" =>
              /\ c.input \in {"empty", "all_null"} =>
                    /\ c.err = "CustomException"
                    /\ ~c.loaded
                    /\ ~c.invoked
                    /\ c.after = c.before
              /\ c.err \in {"none", "CustomException"}
              /\ c.err = "none" => (c.invoked /\ c.input = "valid")

C20_Witness ==
    /\ Len(mp.calls) = 2
    /\ mp.calls[1].op = "predict"
    /\ mp.calls[1].input = "empty"
    /\ mp.calls[1].before = None
    /\ mp.calls[1].err = "CustomException"
    /\ mp.calls[2].op = "predict"
    /\ mp.calls[2].input = "wrong_columns"
    /\ mp.calls[2].invoked
    /\ mp.calls[2].err = "CustomException"

\* C23: for an accepted model the push goes tag approved, copy into the
\* production registry, champion alias to the version the copy returned,
\* mirror of the bundle, each step after the one before; the alias is given
\* to no other version, and the version written to storage is that one.
C23_State ==
    \A r \in Runs :
        LET v == run[r].model_registry_version
            pv == run[r].prod_version
        IN /\ run[r].pc = "copy" =>
                 /\ devReg[v].validation_status = "approved"
                 /\ pv = None
                 /\ run[r].aliasAssigned = None
           /\ run[r].pc = "alias" =>
                 /\ pv # None
                 /\ prodReg[pv].source = v
                 /\ run[r].aliasAssigned = None
                 /\ "champion" \notin prodReg[pv].aliases
           /\ run[r].aliasAssigned # None =>
                 /\ pv # None
                 /\ run[r].aliasAssigned = pv
           /\ (run[r].pc \in {"deploy", "upload"} \/ run[r].promoted = "true")
                 => (pv # None /\ run[r].aliasAssigned = pv)
           /\ run[r].pc \in {"copy", "alias", "deploy"} =>
                 \A k \in BundleKeys : s3[k] = None \/ s3[k] # pv
           /\ run[r].promoted = "true" =>
                 \A k \in BundleKeys : s3[k] = pv

C23_Step ==
    s3' # s3 =>
        \E r \in Runs :
            /\ run[r].pc = "upload"
            /\ run[r].aliasAssigned = run[r].prod_version
            /\ \A k \in BundleKeys :
                  s3'[k] # s3[k] => s3'[k] = run[r].prod_version

C23_PushOrder == [](C23_State) /\ [][C23_Step]_vars

C23_Witness ==
    \E r \in Runs :
        /\ run[r].pc = "done"
        /\ run[r].promoted = "true"
        /\ run[r].prod_version # run[r].model_registry_version
        /\ s3[MetadataKey] = run[r].prod_version
        /\ Champion = {run[r].prod_version}

\* C24: the evaluation stage assigns no alias and copies no version; alias
\* assignment and copying happen in the pusher only, so an accepted run
\* makes exactly one copy and a rejected run none.
C24_EvaluationOnlyRecords ==
    /\ \A v \in DOMAIN devReg : "candidate" \notin devReg[v].aliases
    /\ \A r \in Runs :
          LET v == run[r].model_registry_version
              copies == Cardinality({w \in DOMAIN stagingReg :
                                        stagingReg[w].source = v})
                        + Cardinality({w \in DOMAIN prodReg :
                                          prodReg[w].source = v})
          IN /\ run[r].pc = "push" => copies = 0
             /\ run[r].pc = "done" =>
                   copies = IF run[r].is_model_accepted = "true" THEN 1 ELSE 0

\* C25: a version the trainer registered is tagged pending when the trainer
\* returns; when the run completes without error the version is approved
\* if is_model_accepted is true and rejected if it is false, never pending.
C25_TagFollowsDecision ==
    \A r \in Runs :
        LET v == run[r].model_registry_version
        IN /\ run[r].pc = "evaluate" =>
                 /\ devReg[v].model = r
                 /\ devReg[v].status = "trained"
                 /\ devReg[v].validation_status = "pending"
           /\ run[r].pc = "done" =>
                 devReg[v].validation_status =
                     IF run[r].is_model_accepted = "true" THEN "approved"
                     ELSE "rejected"

C25_Witness ==
    \E r \in Runs :
        /\ run[r].pc = "done"
        /\ run[r].is_model_accepted = "true"
        /\ devReg[run[r].model_registry_version].validation_status = "approved"

\* C26: the evaluator takes the bootstrap branch (sentinel 0 for the
\* champion score) only when no version holds the alias it loads; when one
\* does and the load fails, evaluation fails.
C26_BootstrapOnlyWithoutChampion ==
    \A r \in Runs :
        run[r].evalState = "NoChampionExists" => run[r].liveAtEval = None

\* C27: when initiate_model_pusher raises, the champion alias and the
\* bundle in production storage are what they were before the call; the
\* champion never differs from the version recorded in storage.
C27_FailedPushChangesNothing ==
    \A r \in Runs :
        (run[r].pc = "failed" /\ Count(run[r].invoked, "model_pusher") > 0)
            => /\ run[r].aliasAssigned = None
               /\ run[r].prod_version # None =>
                     \A k \in BundleKeys : s3[k] # run[r].prod_version
               /\ ChampionVersion = s3[MetadataKey]

\* C30: in every state of PredictionService model_version is set only if a
\* model is loaded, so /health never reports a model version together with
\* model_loaded = false, a start-up load that failed part-way included.
C30_VersionOnlyWithModel ==
    /\ svc.model_version # None => svc.model # NoModel
    /\ api.health # <<>> =>
          (api.health[1].model_version # None => api.health[1].model_loaded)

\* C28: after any interleaving of two training runs that both push an
\* accepted model, once both have finished, the version in metadata.json
\* at the production storage location is the production version that
\* holds the champion alias.
C28_StorageMatchesChampion ==
    (/\ \A r \in Runs : run[r].pc \in {"idle", "done", "failed"}
     /\ Cardinality({r \in Runs : run[r].promoted = "true"}) = 2)
        => s3[MetadataKey] = ChampionVersion

\* C29: whenever the champion alias moves from a version v to a version w,
\* the score of w's model on the held-out test set is strictly greater
\* than the score of v's model.
C29_AliasMovesToBetterModel ==
    \A a, b \in Runs :
        (/\ run[b].aliasAssigned # None
         /\ run[b].aliasBefore # None
         /\ run[a].prod_version = run[b].aliasBefore)
            => run[b].metric_score > run[a].metric_score

\* C21: split_data writes every raw row to exactly one of the training and
\* testing files, the testing share is the configured ratio within one
\* row (4 rows at 0.25 give 3 and 1), and a second split of the same
\* snapshot with the same seed writes the same two files.
C21_SplitIsPartition ==
    (ingestion.splits > 0 /\ ingestion.err = "none") =>
        LET n_test == Cardinality(ingestion.testing)
            n_train == Cardinality(ingestion.training)
            off == RatioDen * n_test
                       - ingestion.test_size * ingestion.snapshot
        IN /\ ingestion.training \cap ingestion.testing = {}
           /\ ingestion.training \cup ingestion.testing
                 = Rows(ingestion.snapshot)
           /\ off >= 0 - RatioDen
           /\ off <= RatioDen
           /\ (ingestion.snapshot = 4 /\ ingestion.test_size = 1) =>
                 (n_train = 3 /\ n_test = 1)
           /\ (ingestion.previous # <<>>
                  /\ ingestion.previous[1].rows = ingestion.snapshot) =>
                 /\ ingestion.previous[1].training = ingestion.training
                 /\ ingestion.previous[1].testing = ingestion.testing

C21_Witness ==
    /\ ingestion.splits = 2
    /\ ingestion.err = "none"
    /\ ingestion.previous # <<>>
    /\ ingestion.snapshot = 4
    /\ ingestion.previous[1].rows = 4
    /\ ingestion.test_size = 1
    /\ Cardinality(ingestion.training) = 3
    /\ Cardinality(ingestion.testing) = 1

\* C22: the column check of DataValidation answers true exactly when every
\* column of the expected schema is in the dataset, extra columns or not,
\* and false when one expected column is missing.
C22_ColumnsExistIffSchemaPresent ==
    validation.result # "none" =>
        (validation.result = "true"
            <=> \A column \in validation.all_schema :
                    column \in validation.columns)

C22_Witness ==
    /\ validation.result = "true"
    /\ validation.all_schema # {}
    /\ validation.columns # validation.all_schema

====
